---- MODULE Spec2Model ----
(***************************************************************************)
(* Tightlock event delivery reconciliation:                                *)
(*   - dags/destinations/ga4mp.py  Destination._get_valid_and_invalid_events*)
(*     with _send_validate_request and _parse_validate_result              *)
(*   - dags/utils.py  GoogleAdsUtils.get_partial_failures,                 *)
(*     DrillMixin._parse_data, RunResult.__add__                           *)
(*                                                                         *)
(* Text (field paths, descriptions) is a sequence of tokens; Python's      *)
(* `a in b` on strings is containment of a contiguous token run.           *)
(***************************************************************************)
EXTENDS Integers, Sequences, FiniteSets, TLC

VARIABLES
  payload_type,                \* Destination.payload_type
  events,                      \* the batch handed to _get_valid_and_invalid_events
  i,                           \* number of completed loop iterations
  valid_events,                \* list of <<index, event>>
  invalid_indices_and_errors,  \* list of <<index, error_num>>
  response,                    \* what the validation request of the latest attempted event met
  pc,                          \* "idle" | "loop" | "returned" | "raised" | "blocked"
  exc,                         \* the exception that left the call, "" if none
  input_rows,                  \* rows = input_data.fetchall() of send_data
  retries,                     \* the rows of the 'retries' table
  pf_batch_size,               \* number of operations in the request the response answers
  pf_response,                 \* the response handed to get_partial_failures
  pf_result,                   \* the map it returned
  pf_pc,                       \* "idle" | "call" | "returned" | "raised"
  map_fields,                  \* the field list handed to _parse_data
  map_rows,                    \* the rows handed to the field mapper
  map_result,                  \* the events the mapper returned
  map_pc,                      \* "idle" | "call" | "returned" | "raised"
  map_by,                      \* which mapper ran
  rr_a, rr_b, rr_c,            \* three RunResult objects
  rr_given,                    \* the three objects as they were handed in
  rr_sum,                      \* the RunResults built from them by __add__
  rr_pc                        \* "idle" | "start" | "pairs" | "triples"

ga4_vars == <<payload_type, events, i, valid_events, invalid_indices_and_errors,
              response, pc, exc, input_rows, retries>>

pf_vars == <<pf_batch_size, pf_response, pf_result, pf_pc>>

map_vars == <<map_fields, map_rows, map_result, map_pc, map_by>>

rr_vars == <<rr_a, rr_b, rr_c, rr_given, rr_sum, rr_pc>>

vars == <<ga4_vars, pf_vars, map_vars, rr_vars>>

(***************************************************************************)
(* Bounds                                                                  *)
(***************************************************************************)
MaxBatch == 2

MaxDetails == 2

MaxErrors == 1

MaxRows == 2

MaxHits == 1

RowWidth == 4

(***************************************************************************)
(* Sequences helpers                                                       *)
(***************************************************************************)
SeqsUpTo(S, n) == UNION {[1..k -> S] : k \in 0..n}

\* Python `needle in haystack` for str
Contains(haystack, needle) ==
  \E k \in 0..(Len(haystack) - Len(needle)) :
     SubSeq(haystack, k + 1, k + Len(needle)) = needle

(***************************************************************************)
(* errors.ErrorNameIDMap members and DataOutConnectorValueError.error_num  *)
(* An error_num is what the raise site passed: the enum member, or the     *)
(* member's .value.                                                        *)
(***************************************************************************)
ErrorNameIDMap(name) == [name |-> name, form |-> "member"]

EnumValue(member) == [member EXCEPT !.form = "value"]

RETRIABLE_GA4_HOOK_ERROR_HTTP_ERROR == ErrorNameIDMap("RETRIABLE_GA4_HOOK_ERROR_HTTP_ERROR")

NON_RETRIABLE_ERROR_EVENT_NOT_SENT == ErrorNameIDMap("NON_RETRIABLE_ERROR_EVENT_NOT_SENT")

GA4_HOOK_ERROR_INVALID_VALUES == ErrorNameIDMap("GA4_HOOK_ERROR_INVALID_VALUES")

FieldValidationRejection(field) == ErrorNameIDMap(field)

\* The fixed table of known field names, in iteration order.
ERROR_TYPES ==
  << [property_name |-> <<"timestamp_micros">>,
      error_num |-> FieldValidationRejection("timestamp_micros")],
     [property_name |-> <<"client_id">>,
      error_num |-> FieldValidationRejection("client_id")],
     [property_name |-> <<"engagement_time_msec">>,
      error_num |-> FieldValidationRejection("engagement_time_msec")] >>

NoError == [name |-> "", form |-> ""]

(***************************************************************************)
(* Outcomes of a call: it returns, it raises, or it never comes back.      *)
(***************************************************************************)
Returns == [tag |-> "return", exc |-> "", error_num |-> NoError]

Raises(e, n) == [tag |-> "raise", exc |-> e, error_num |-> n]

Blocks == [tag |-> "block", exc |-> "", error_num |-> NoError]

(***************************************************************************)
(* Inputs: events and what the validation endpoint does                    *)
(***************************************************************************)
PayloadTypes == {"firebase", "gtag"}

AllKeys == {"app_instance_id", "client_id", "user_id", "event_name",
            "engagement_time_msec", "session_id"}

Events ==
  { [user_id |-> "u1", keys |-> AllKeys],
    [user_id |-> "u2", keys |-> AllKeys],
    [user_id |-> "u1", keys |-> AllKeys \ {"client_id"}],
    [user_id |-> "u2", keys |-> AllKeys \ {"session_id"}] }

Statuses == {100, 200, 201, 499, 500, 503}

Message(hasPath, path, hasDesc, desc) ==
  [has_fieldPath |-> hasPath, fieldPath |-> path,
   has_description |-> hasDesc, description |-> desc]

FirstMessages ==
  { Message(TRUE, <<"engagement_time_msec">>, TRUE, <<"invalid">>),
    Message(TRUE, <<"events[0]", ".", "params", ".", "engagement_time_msec">>,
            TRUE, <<"invalid">>),
    Message(TRUE, <<"unknown_field">>, TRUE, <<"invalid">>),
    Message(TRUE, <<"unknown_field">>, TRUE,
            <<"Measurement", "timestamp_micros", "has", "timestamp">>),
    Message(TRUE, <<"engagement_time_msec">>, TRUE,
            <<"client_id", "and", "timestamp_micros">>),
    Message(FALSE, <<>>, TRUE, <<"invalid">>),
    Message(TRUE, <<"unknown_field">>, FALSE, <<>>) }

LaterMessages ==
  { Message(TRUE, <<"timestamp_micros">>, TRUE, <<"client_id">>) }

MessageLists ==
  {<<>>} \cup {<<m>> : m \in FirstMessages}
         \cup {<<m, l>> : m \in FirstMessages, l \in LaterMessages}

Body(parse, hasMessages, messages) ==
  [parse |-> parse, has_validationMessages |-> hasMessages, validationMessages |-> messages]

Bodies ==
  {Body("error", FALSE, <<>>), Body("ok", FALSE, <<>>)}
    \cup {Body("ok", TRUE, ms) : ms \in MessageLists}

Net(transport, status, body) == [transport |-> transport, status |-> status, body |-> body]

NoRequest == Net("none", 0, Body("error", FALSE, <<>>))

\* requests.post(self.validate_url, json=...) carries no timeout: the endpoint
\* answers, the connection fails, another requests exception is raised, or no
\* reply ever arrives.
NetOutcomes ==
  {Net("response", s, b) : s \in Statuses, b \in Bodies}
    \cup {Net(t, 0, Body("error", FALSE, <<>>)) :
            t \in {"ConnectionError", "RequestException", "NoReply"}}

(***************************************************************************)
(* Destination._send_validate_request                                      *)
(***************************************************************************)
send_validate_request(net) ==
  CASE net.transport = "response" -> Returns
    [] net.transport = "ConnectionError" ->
         Raises("DataOutConnectorValueError", RETRIABLE_GA4_HOOK_ERROR_HTTP_ERROR)
    [] net.transport = "RequestException" -> Raises("RequestException", NoError)
    [] OTHER -> Blocks

(***************************************************************************)
(* Destination._parse_validate_result                                      *)
(***************************************************************************)
\* variant: the field path is searched for the name instead of compared with it
RECURSIVE match_error_types_substring(_, _, _)
match_error_types_substring(k, field_path, description) ==
  IF k > Len(ERROR_TYPES)
    THEN Raises("DataOutConnectorValueError", GA4_HOOK_ERROR_INVALID_VALUES)
    ELSE IF \/ Contains(field_path, ERROR_TYPES[k].property_name)
            \/ Contains(description, ERROR_TYPES[k].property_name)
           THEN Raises("DataOutConnectorValueError", ERROR_TYPES[k].error_num)
           ELSE match_error_types_substring(k + 1, field_path, description)

RECURSIVE match_error_types(_, _, _)
match_error_types(k, field_path, description) ==
  IF k > Len(ERROR_TYPES)
    THEN Raises("DataOutConnectorValueError", GA4_HOOK_ERROR_INVALID_VALUES)
    ELSE IF \/ field_path = ERROR_TYPES[k].property_name
            \/ Contains(description, ERROR_TYPES[k].property_name)
           THEN Raises("DataOutConnectorValueError", ERROR_TYPES[k].error_num)
           ELSE match_error_types(k + 1, field_path, description)

\* the part of _parse_validate_result after the status checks
parse_body(resp) ==
  IF resp.body.parse # "ok"
    THEN Raises("DataOutConnectorValueError",
                EnumValue(RETRIABLE_GA4_HOOK_ERROR_HTTP_ERROR))
  ELSE IF ~resp.body.has_validationMessages
    THEN Raises("KeyError", NoError)
  ELSE IF resp.body.validationMessages = <<>>
    THEN Returns
  ELSE LET message == resp.body.validationMessages[1] IN
       IF ~message.has_fieldPath \/ ~message.has_description
         THEN Raises("KeyError", NoError)
         ELSE match_error_types(1, message.fieldPath, message.description)

\* variant: only 5xx is rejected on the status, any other status goes on to the body
parse_validate_result_any_non_5xx(resp) ==
  IF resp.status >= 500
    THEN Raises("DataOutConnectorValueError", RETRIABLE_GA4_HOOK_ERROR_HTTP_ERROR)
    ELSE parse_body(resp)

\* variant: the body is decoded before the status is looked at
parse_validate_result_body_first(resp) ==
  IF resp.body.parse # "ok"
    THEN Raises("DataOutConnectorValueError",
                EnumValue(RETRIABLE_GA4_HOOK_ERROR_HTTP_ERROR))
  ELSE IF resp.status >= 500
    THEN Raises("DataOutConnectorValueError", RETRIABLE_GA4_HOOK_ERROR_HTTP_ERROR)
  ELSE IF resp.status # 200
    THEN Raises("DataOutConnectorValueError", NON_RETRIABLE_ERROR_EVENT_NOT_SENT)
  ELSE parse_body(resp)

parse_validate_result(resp) ==
  IF resp.status >= 500
    THEN Raises("DataOutConnectorValueError", RETRIABLE_GA4_HOOK_ERROR_HTTP_ERROR)
  ELSE IF resp.status # 200
    THEN Raises("DataOutConnectorValueError", NON_RETRIABLE_ERROR_EVENT_NOT_SENT)
  ELSE parse_body(resp)

(***************************************************************************)
(* Destination._get_valid_and_invalid_events                               *)
(***************************************************************************)
\* keys the payload construction reads from the event
payload_keys(ptype) ==
  (IF ptype = "firebase" THEN {"app_instance_id"}
   ELSE IF ptype = "gtag" THEN {"client_id"} ELSE {})
    \cup {"user_id", "event_name", "engagement_time_msec", "session_id"}

build_payload(ptype, event) ==
  IF payload_keys(ptype) \subseteq event.keys THEN Returns ELSE Raises("KeyError", NoError)

\* the try block: send, then parse
validate_event(net) ==
  LET sent == send_validate_request(net) IN
  IF sent.tag # "return" THEN sent ELSE parse_validate_result(net)

\* variant: the new entry is put in front
append_valid_front(valid, idx, event) == <<<<idx, event>>>> \o valid

append_valid(valid, idx, event) == Append(valid, <<idx, event>>)

append_invalid(invalid, idx, error_num) == Append(invalid, <<idx, error_num>>)

LoopIteration ==
  /\ pc = "loop"
  /\ i < Len(events)
  /\ LET event == events[i + 1] IN
     IF build_payload(payload_type, event).tag = "raise"
       THEN /\ pc' = "raised"
            /\ exc' = "KeyError"
            /\ response' = NoRequest
            /\ UNCHANGED <<i, valid_events, invalid_indices_and_errors>>
       ELSE \E net \in NetOutcomes :
            LET r == validate_event(net) IN
            /\ response' = net
            /\ CASE r.tag = "return" ->
                      /\ valid_events' = append_valid(valid_events, i, event)
                      /\ i' = i + 1
                      /\ UNCHANGED <<invalid_indices_and_errors, pc, exc>>
                 [] r.tag = "raise" /\ r.exc = "DataOutConnectorValueError" ->
                      /\ invalid_indices_and_errors' =
                           append_invalid(invalid_indices_and_errors, i, r.error_num)
                      /\ i' = i + 1
                      /\ UNCHANGED <<valid_events, pc, exc>>
                 [] r.tag = "raise" /\ r.exc # "DataOutConnectorValueError" ->
                      /\ pc' = "raised"
                      /\ exc' = r.exc
                      /\ UNCHANGED <<i, valid_events, invalid_indices_and_errors>>
                 [] OTHER ->
                      /\ pc' = "blocked"
                      /\ UNCHANGED <<i, valid_events, invalid_indices_and_errors, exc>>
  /\ UNCHANGED <<payload_type, events, input_rows, retries>>
  /\ UNCHANGED <<pf_vars, map_vars, rr_vars>>

LoopExit ==
  /\ pc = "loop"
  /\ i = Len(events)
  /\ pc' = "returned"
  /\ UNCHANGED <<payload_type, events, i, valid_events, invalid_indices_and_errors,
                 response, exc, input_rows, retries>>
  /\ UNCHANGED <<pf_vars, map_vars, rr_vars>>

(***************************************************************************)
(* GoogleAdsUtils.get_partial_failures                                     *)
(* A detail's value is the serialized GoogleAdsFailure; deserialize gives  *)
(* its errors. An error's location may have no field_path_elements.        *)
(***************************************************************************)
Error(hasPath, index, message) ==
  [has_field_path_elements |-> hasPath, index |-> index,
   error_code |-> "E", message |-> message]

PartialFailureErrors ==
  { Error(TRUE, 0, "msgA"), Error(TRUE, 0, "msgB"), Error(TRUE, 1, "msgA"),
    Error(FALSE, 0, "msgA") }

\* sizes of the submitted batch; the response is not bound to them
BatchSizes == {1, 2}

Details == SeqsUpTo(SeqsUpTo(PartialFailureErrors, MaxErrors), MaxDetails)

\* partial_failure_error absent (getattr gives None), or a Status with code and details
PartialFailureResponse(present, code, details) ==
  [has_partial_failure_error |-> present, code |-> code, details |-> details]

Codes == {0, 3}

EmptyMap == <<>>

MapResult(tag, map) == [tag |-> tag, map |-> map]

\* f'Code: {error.error_code}, Error: {error.message}'
format_message(error) == <<"Code: ", error.error_code, ", Error: ", error.message>>

\* variant: the entry of the index is replaced
add_message_overwrite(partial_failures, index, message) ==
  IF index \in DOMAIN partial_failures
    THEN [partial_failures EXCEPT ![index] = message]
    ELSE partial_failures @@ (index :> message)

\* partial_failures[index] += message, on a defaultdict(str)
add_message(partial_failures, index, message) ==
  IF index \in DOMAIN partial_failures
    THEN [partial_failures EXCEPT ![index] = @ \o message]
    ELSE partial_failures @@ (index :> message)

\* variant: an error without a location path is put at index 0
RECURSIVE fold_errors_default_index(_, _)
fold_errors_default_index(errors, partial_failures) ==
  IF errors = <<>> THEN MapResult("return", partial_failures)
  ELSE LET error == Head(errors) IN
       fold_errors_default_index(
         Tail(errors),
         add_message(partial_failures,
                     IF error.has_field_path_elements THEN error.index ELSE 0,
                     format_message(error)))

\* for error in failure_object.errors
RECURSIVE fold_errors(_, _)
fold_errors(errors, partial_failures) ==
  IF errors = <<>> THEN MapResult("return", partial_failures)
  ELSE LET error == Head(errors) IN
       IF ~error.has_field_path_elements
         THEN MapResult("IndexError", partial_failures)
         ELSE fold_errors(Tail(errors),
                          add_message(partial_failures, error.index, format_message(error)))

\* for error_detail in error_details
RECURSIVE fold_details(_, _)
fold_details(error_details, partial_failures) ==
  IF error_details = <<>> THEN MapResult("return", partial_failures)
  ELSE LET folded == fold_errors(Head(error_details), partial_failures) IN
       IF folded.tag # "return" THEN folded
       ELSE fold_details(Tail(error_details), folded.map)

\* variant: the zero code is not looked at
get_partial_failures_no_code_check(resp) ==
  fold_details(IF resp.has_partial_failure_error THEN resp.details ELSE <<>>, EmptyMap)

get_partial_failures(resp) ==
  IF resp.has_partial_failure_error /\ resp.code = 0
    THEN MapResult("return", EmptyMap)
    ELSE fold_details(IF resp.has_partial_failure_error THEN resp.details ELSE <<>>,
                      EmptyMap)

GetPartialFailures ==
  /\ pf_pc = "call"
  /\ LET out == get_partial_failures(pf_response) IN
     IF out.tag = "return"
       THEN pf_pc' = "returned" /\ pf_result' = out.map
       ELSE pf_pc' = "raised" /\ pf_result' = pf_result
  /\ UNCHANGED <<pf_batch_size, pf_response>>
  /\ UNCHANGED <<ga4_vars, map_vars, rr_vars>>

(***************************************************************************)
(* Field mappers: DrillMixin._parse_data and Destination._parse_input_data *)
(* Values are tokens; "" and "None" stand for Python's falsy '' and None.  *)
(***************************************************************************)
Values == {"", "None", "x"}

Truthy(v) == v \notin {"", "None"}

FieldLists ==
  {<<"user_id">>, <<"user_id", "event_name">>,
   <<"user_id", "event_name", "engagement_time_msec", "session_id">>,
   <<"client_id", "user_id", "event_name", "engagement_time_msec", "session_id">>}

Rows == [1..RowWidth -> Values]

Mapped(tag, exception, result) == [tag |-> tag, exc |-> exception, events |-> result]

\* event_dict[field] = event[i] for i, field in enumerate(fields)
event_dict_of(fields, row) ==
  [f \in {fields[k] : k \in DOMAIN fields} |->
     row[CHOOSE k \in DOMAIN fields :
           fields[k] = f /\ \A j \in DOMAIN fields : fields[j] = f => j <= k]]

\* any(event_dict.values())
any_value(event_dict) == \E f \in DOMAIN event_dict : Truthy(event_dict[f])

\* variant: a row is kept only when all its values are truthy
keep_row_all(event_dict) == \A f \in DOMAIN event_dict : Truthy(event_dict[f])

keep_row(event_dict) == any_value(event_dict)

RECURSIVE parse_data(_, _, _)
parse_data(fields, rows, result) ==
  IF rows = <<>> THEN Mapped("return", "", result)
  ELSE IF Len(Head(rows)) < Len(fields) THEN Mapped("raise", "IndexError", <<>>)
  ELSE LET event_dict == event_dict_of(fields, Head(rows)) IN
       parse_data(fields, Tail(rows),
                  IF keep_row(event_dict) THEN Append(result, event_dict) ELSE result)

\* Destination.fields(self, config), called with the given arguments
destination_fields(args) ==
  IF Len(args) # 1
    THEN Mapped("raise", "TypeError", <<>>)
    ELSE Mapped("return", "", <<"user_id", "event_name", "engagement_time_msec", "session_id">>)

RECURSIVE parse_input_rows(_, _, _)
parse_input_rows(fields, rows, result) ==
  IF rows = <<>> THEN Mapped("return", "", result)
  ELSE IF Len(Head(rows)) < Len(fields) THEN Mapped("raise", "IndexError", <<>>)
  ELSE parse_input_rows(fields, Tail(rows), Append(result, event_dict_of(fields, Head(rows))))

\* fields = self.fields(), then the loop over the rows
parse_input_data(rows) ==
  LET fields == destination_fields(<<>>) IN
  IF fields.tag = "raise" THEN fields ELSE parse_input_rows(fields.events, rows, <<>>)

ParseData ==
  /\ map_pc = "call"
  /\ LET out == parse_data(map_fields, map_rows, <<>>) IN
     /\ map_pc' = IF out.tag = "return" THEN "returned" ELSE "raised"
     /\ map_result' = out.events
  /\ map_by' = "_parse_data"
  /\ UNCHANGED <<map_fields, map_rows>>
  /\ UNCHANGED <<ga4_vars, pf_vars, rr_vars>>

ParseInputData ==
  /\ map_pc = "call"
  /\ LET out == parse_input_data(map_rows) IN
     /\ map_pc' = IF out.tag = "return" THEN "returned" ELSE "raised"
     /\ map_result' = out.events
  /\ map_by' = "_parse_input_data"
  /\ UNCHANGED <<map_fields, map_rows>>
  /\ UNCHANGED <<ga4_vars, pf_vars, rr_vars>>

(***************************************************************************)
(* Destination.send_data                                                   *)
(* rows = input_data.fetchall(); the rows are mapped and handed to the     *)
(* validator; the two lists are printed and rows is returned. Nothing is   *)
(* written to the 'retries' table.                                         *)
(***************************************************************************)
FetchedRows == SeqsUpTo({[k \in 1..RowWidth |-> ""], [k \in 1..RowWidth |-> "x"]}, MaxBatch)

\* the event the validator reads from a mapped row
event_of(event_dict) ==
  [user_id |-> IF "user_id" \in DOMAIN event_dict THEN event_dict["user_id"] ELSE "",
   keys |-> DOMAIN event_dict]

SendData ==
  /\ pc = "send_data"
  /\ LET input_data_dict == parse_input_data(input_rows) IN
     IF input_data_dict.tag = "raise"
       THEN /\ pc' = "raised"
            /\ exc' = input_data_dict.exc
            /\ UNCHANGED events
       ELSE /\ pc' = "loop"
            /\ events' = [k \in DOMAIN input_data_dict.events |->
                            event_of(input_data_dict.events[k])]
            /\ UNCHANGED exc
  /\ UNCHANGED <<payload_type, i, valid_events, invalid_indices_and_errors, response,
                 input_rows, retries>>
  /\ UNCHANGED <<pf_vars, map_vars, rr_vars>>

(***************************************************************************)
(* RunResult.__add__                                                       *)
(* The call is given two objects and builds a third; the model returns the *)
(* operands as the call leaves them next to the new object.                *)
(***************************************************************************)
RunResult(sh, fh, em, dr) ==
  [successful_hits |-> sh, failed_hits |-> fh, error_messages |-> em, dry_run |-> dr]

MessageListsOfRuns == {<<>>, <<"m1">>, <<"m2">>, <<"m1", "m2">>}

RunResults ==
  {RunResult(sh, fh, em, dr) :
     sh \in 0..MaxHits, fh \in {0, MaxHits}, em \in MessageListsOfRuns, dr \in BOOLEAN}

Added(ret, self, other) == [ret |-> ret, self |-> self, other |-> other]

\* variant: self.error_messages is extended in place and shared with the result
RunResult_add_in_place(self, other) ==
  LET em == self.error_messages \o other.error_messages IN
  Added(RunResult(self.successful_hits + other.successful_hits,
                  self.failed_hits + other.failed_hits,
                  em,
                  self.dry_run \/ other.dry_run),
        [self EXCEPT !.error_messages = em], other)

RunResult_add(self, other) ==
  LET sh == self.successful_hits + other.successful_hits
      fh == self.failed_hits + other.failed_hits
      em == self.error_messages \o other.error_messages
      dr == self.dry_run \/ other.dry_run
  IN Added(RunResult(sh, fh, em, dr), self, other)

NoSums == [ab |-> RunResult(0, 0, <<>>, FALSE), ba |-> RunResult(0, 0, <<>>, FALSE),
           bc |-> RunResult(0, 0, <<>>, FALSE), ab_c |-> RunResult(0, 0, <<>>, FALSE),
           a_bc |-> RunResult(0, 0, <<>>, FALSE)]

\* ab = a + b; ba = b + a; bc = b + c
AddPairs ==
  /\ rr_pc = "start"
  /\ LET s1 == RunResult_add(rr_a, rr_b)
         s2 == RunResult_add(s1.other, s1.self)
         s3 == RunResult_add(s2.self, rr_c)
     IN /\ rr_sum' = [rr_sum EXCEPT !.ab = s1.ret, !.ba = s2.ret, !.bc = s3.ret]
        /\ rr_a' = s2.other
        /\ rr_b' = s3.self
        /\ rr_c' = s3.other
  /\ rr_pc' = "pairs"
  /\ UNCHANGED rr_given
  /\ UNCHANGED <<ga4_vars, pf_vars, map_vars>>

\* ab_c = (a + b) + c; a_bc = a + (b + c)
AddTriples ==
  /\ rr_pc = "pairs"
  /\ LET s1 == RunResult_add(rr_sum.ab, rr_c)
         s2 == RunResult_add(rr_a, rr_sum.bc)
     IN /\ rr_sum' = [rr_sum EXCEPT !.ab = s1.self, !.bc = s2.other,
                                    !.ab_c = s1.ret, !.a_bc = s2.ret]
        /\ rr_a' = s2.self
        /\ rr_c' = s1.other
  /\ rr_pc' = "triples"
  /\ UNCHANGED <<rr_b, rr_given>>
  /\ UNCHANGED <<ga4_vars, pf_vars, map_vars>>

(***************************************************************************)
(* Specifications, one per component; the other components stay idle.     *)
(***************************************************************************)
IdleGA4 ==
  /\ payload_type = "gtag"
  /\ events = <<>>
  /\ i = 0
  /\ valid_events = <<>>
  /\ invalid_indices_and_errors = <<>>
  /\ response = NoRequest
  /\ pc = "idle"
  /\ exc = ""
  /\ input_rows = <<>>
  /\ retries = {}

IdlePF ==
  /\ pf_batch_size = 0
  /\ pf_response = PartialFailureResponse(FALSE, 0, <<>>)
  /\ pf_result = EmptyMap
  /\ pf_pc = "idle"

IdleMap ==
  /\ map_fields = <<>>
  /\ map_rows = <<>>
  /\ map_result = <<>>
  /\ map_pc = "idle"
  /\ map_by = ""

IdleRR ==
  /\ rr_a = RunResult(0, 0, <<>>, FALSE)
  /\ rr_b = RunResult(0, 0, <<>>, FALSE)
  /\ rr_c = RunResult(0, 0, <<>>, FALSE)
  /\ rr_given = <<rr_a, rr_b, rr_c>>
  /\ rr_sum = NoSums
  /\ rr_pc = "idle"

InitGA4 ==
  /\ payload_type \in PayloadTypes
  /\ events \in SeqsUpTo(Events, MaxBatch)
  /\ i = 0
  /\ valid_events = <<>>
  /\ invalid_indices_and_errors = <<>>
  /\ response = NoRequest
  /\ pc = "loop"
  /\ exc = ""
  /\ input_rows = <<>>
  /\ retries = {}

\* send_data is handed the fetched rows; the 'retries' table is as upgrade() made it
InitSendData ==
  /\ payload_type \in PayloadTypes
  /\ events = <<>>
  /\ i = 0
  /\ valid_events = <<>>
  /\ invalid_indices_and_errors = <<>>
  /\ response = NoRequest
  /\ pc = "send_data"
  /\ exc = ""
  /\ input_rows \in FetchedRows
  /\ retries = {}

InitPF ==
  /\ pf_batch_size \in BatchSizes
  /\ \/ pf_response = PartialFailureResponse(FALSE, 0, <<>>)
     \/ \E c \in Codes : \E d \in Details : pf_response = PartialFailureResponse(TRUE, c, d)
  /\ pf_result = EmptyMap
  /\ pf_pc = "call"

InitMap ==
  /\ map_fields \in FieldLists
  /\ map_rows \in SeqsUpTo(Rows, MaxRows)
  /\ map_result = <<>>
  /\ map_pc = "call"
  /\ map_by = ""

InitRR ==
  /\ rr_a \in RunResults
  /\ rr_b \in RunResults
  /\ rr_c \in RunResults
  /\ rr_given = <<rr_a, rr_b, rr_c>>
  /\ rr_sum = NoSums
  /\ rr_pc = "start"

Init == (InitGA4 \/ InitSendData) /\ IdlePF /\ IdleMap /\ IdleRR

Next == LoopIteration \/ LoopExit \/ SendData

Spec == Init /\ [][Next]_vars

InitPartialFailures == IdleGA4 /\ InitPF /\ IdleMap /\ IdleRR

NextPartialFailures == GetPartialFailures

SpecPartialFailures == InitPartialFailures /\ [][NextPartialFailures]_vars

InitFieldMapper == IdleGA4 /\ IdlePF /\ InitMap /\ IdleRR

NextFieldMapper == ParseData \/ ParseInputData

SpecFieldMapper == InitFieldMapper /\ [][NextFieldMapper]_vars

InitRunResult == IdleGA4 /\ IdlePF /\ IdleMap /\ InitRR

NextRunResult == AddPairs \/ AddTriples

SpecRunResult == InitRunResult /\ [][NextRunResult]_vars

(***************************************************************************)
(* Properties of the per-event validator                                   *)
(***************************************************************************)
\* the latest event went through its iteration and the loop went on
Completed == pc \in {"loop", "returned"} /\ i > 0

\* a validation request was made for the latest attempted event
Requested == pc # "idle" /\ response # NoRequest

ValidIndices == {valid_events[k][1] : k \in DOMAIN valid_events}

InvalidIndices == {invalid_indices_and_errors[k][1] : k \in DOMAIN invalid_indices_and_errors}

KindsAt(idx) ==
  {invalid_indices_and_errors[k][2] :
     k \in {j \in DOMAIN invalid_indices_and_errors : invalid_indices_and_errors[j][1] = idx}}

Ascending(list) == \A j, k \in DOMAIN list : j < k => list[j][1] < list[k][1]

Answered(net) == net.transport = "response"

Accepted(net) ==
  /\ Answered(net)
  /\ net.status = 200
  /\ net.body.parse = "ok"
  /\ net.body.has_validationMessages
  /\ net.body.validationMessages = <<>>

\* status 200, decoded, a non-empty message list whose first message has both fields
Rejected200(net) ==
  /\ Answered(net)
  /\ net.status = 200
  /\ net.body.parse = "ok"
  /\ net.body.has_validationMessages
  /\ net.body.validationMessages # <<>>
  /\ net.body.validationMessages[1].has_fieldPath
  /\ net.body.validationMessages[1].has_description

ErrorKinds ==
  LET members == {RETRIABLE_GA4_HOOK_ERROR_HTTP_ERROR, NON_RETRIABLE_ERROR_EVENT_NOT_SENT,
                  GA4_HOOK_ERROR_INVALID_VALUES}
                   \cup {ERROR_TYPES[k].error_num : k \in DOMAIN ERROR_TYPES}
  IN members \cup {EnumValue(m) : m \in members}

C3_StatusAloneDecides ==
  (Requested /\ Answered(response) /\ response.status # 200) =>
    /\ Completed
    /\ response.status >= 500 =>
         KindsAt(i - 1) = {RETRIABLE_GA4_HOOK_ERROR_HTTP_ERROR}
    /\ (response.status > 200 /\ response.status < 500) =>
         KindsAt(i - 1) = {NON_RETRIABLE_ERROR_EVENT_NOT_SENT}

C3_Witness ==
  /\ Completed
  /\ Answered(response)
  /\ response.status = 499
  /\ response.body.parse # "ok"
  /\ KindsAt(i - 1) = {NON_RETRIABLE_ERROR_EVENT_NOT_SENT}

\* C4: when the validation request gets no response (connection refused, a
\* timeout), the event is recorded as invalid with a transport kind that is
\* not the kind used for HTTP >= 500, and the call neither hangs nor aborts.
C4_TransportKindDistinct ==
  (Requested /\ ~Answered(response)) =>
    /\ Completed
    /\ (i - 1) \in InvalidIndices
    /\ RETRIABLE_GA4_HOOK_ERROR_HTTP_ERROR \notin KindsAt(i - 1)

C6_NoFailureEscapes ==
  /\ pc # "raised"
  /\ (Completed /\ ~Accepted(response)) => (i - 1) \in InvalidIndices

(***************************************************************************)
(* Properties of get_partial_failures                                      *)
(***************************************************************************)
RECURSIVE Flatten(_)
Flatten(seqs) == IF seqs = <<>> THEN <<>> ELSE Head(seqs) \o Flatten(Tail(seqs))

\* the errors of the response, in response order
ReportedErrors ==
  IF pf_response.has_partial_failure_error THEN Flatten(pf_response.details) ELSE <<>>

ZeroCode == pf_response.has_partial_failure_error /\ pf_response.code = 0

RECURSIVE PartsAt(_, _)
PartsAt(errors, idx) ==
  IF errors = <<>> THEN <<>>
  ELSE (IF Head(errors).index = idx
          THEN <<"Code: ", Head(errors).error_code, ", Error: ", Head(errors).message>>
          ELSE <<>>) \o PartsAt(Tail(errors), idx)

AllLocated == \A k \in DOMAIN ReportedErrors : ReportedErrors[k].has_field_path_elements

\* C7: a response whose partial-failure code is 0 gives the empty map,
\* whatever its details hold.
C7_ZeroCodeEmptyMap ==
  (pf_pc \in {"returned", "raised"} /\ ZeroCode) =>
    (pf_pc = "returned" /\ pf_result = EmptyMap)

C7_Witness ==
  /\ pf_pc = "returned"
  /\ ZeroCode
  /\ Len(ReportedErrors) >= 2
  /\ ~AllLocated
  /\ pf_result = EmptyMap

\* C8: for a code other than 0, the keys of the returned map are exactly the
\* indices the errors name, and the entry of an index is the messages of its
\* errors, one after the other in response order.
C8_KeysAndAccumulation ==
  /\ (pf_pc \in {"returned", "raised"} /\ ~ZeroCode /\ AllLocated) => pf_pc = "returned"
  /\ (pf_pc = "returned" /\ ~ZeroCode) =>
       /\ DOMAIN pf_result = {ReportedErrors[k].index : k \in DOMAIN ReportedErrors}
       /\ \A idx \in DOMAIN pf_result : pf_result[idx] = PartsAt(ReportedErrors, idx)

C8_Witness ==
  /\ pf_pc = "returned"
  /\ ~ZeroCode
  /\ Len(ReportedErrors) = 2
  /\ ReportedErrors[1].message = "msgA"
  /\ ReportedErrors[2].message = "msgB"
  /\ DOMAIN pf_result = {0}
  /\ pf_result[0] = <<"Code: ", "E", ", Error: ", "msgA", "Code: ", "E", ", Error: ", "msgB">>

(***************************************************************************)
(* Properties of the field mappers                                         *)
(***************************************************************************)
\* the field list the mapper that ran works with
FieldsUsed ==
  IF map_by = "_parse_data" THEN map_fields
  ELSE <<"user_id", "event_name", "engagement_time_msec", "session_id">>

RECURSIVE RetainedRows(_, _)
RetainedRows(fields, rows) ==
  IF rows = <<>> THEN <<>>
  ELSE (IF \E k \in DOMAIN fields : Truthy(Head(rows)[k])
          THEN <<[f \in {fields[k] : k \in DOMAIN fields} |->
                    Head(rows)[CHOOSE k \in DOMAIN fields : fields[k] = f]]>>
          ELSE <<>>) \o RetainedRows(fields, Tail(rows))

\* C9: with rows at least as long as the field list, the mapper returns, in
\* input order, the mapping of every row that has a truthy mapped value and of
\* no other row.
C9_AllEmptyRowsDropped ==
  ( /\ map_pc \in {"returned", "raised"}
    /\ \A k \in DOMAIN map_rows : Len(map_rows[k]) >= Len(FieldsUsed) )
    => /\ map_pc = "returned"
       /\ map_result = RetainedRows(FieldsUsed, map_rows)

(***************************************************************************)
(* Properties of RunResult.__add__                                         *)
(***************************************************************************)
SumOf(x, y, z) ==
  /\ z.successful_hits = x.successful_hits + y.successful_hits
  /\ z.failed_hits = x.failed_hits + y.failed_hits
  /\ z.error_messages = x.error_messages \o y.error_messages
  /\ Len(z.error_messages) = Len(x.error_messages) + Len(y.error_messages)
  /\ z.dry_run = (x.dry_run \/ y.dry_run)

\* C10: a + b sums the two counts, puts a's messages before b's and ORs the
\* dry-run flags; (a + b) + c and a + (b + c) are equal; a + b and b + a agree
\* on the counts and on dry-run; the operands are left as they were.
C10_AddLaws ==
  /\ rr_pc \in {"pairs", "triples"} =>
       /\ SumOf(rr_given[1], rr_given[2], rr_sum.ab)
       /\ SumOf(rr_given[2], rr_given[1], rr_sum.ba)
       /\ SumOf(rr_given[2], rr_given[3], rr_sum.bc)
       /\ rr_sum.ab.successful_hits = rr_sum.ba.successful_hits
       /\ rr_sum.ab.failed_hits = rr_sum.ba.failed_hits
       /\ rr_sum.ab.dry_run = rr_sum.ba.dry_run
       /\ <<rr_a, rr_b, rr_c>> = rr_given
  /\ rr_pc = "triples" =>
       /\ SumOf(rr_sum.ab, rr_given[3], rr_sum.ab_c)
       /\ SumOf(rr_given[1], rr_sum.bc, rr_sum.a_bc)
       /\ rr_sum.ab_c = rr_sum.a_bc

C10_Witness ==
  /\ rr_pc = "triples"
  /\ rr_given[1].error_messages = <<"m1">>
  /\ rr_given[2].error_messages = <<"m2">>
  /\ rr_given[3].error_messages = <<"m1", "m2">>
  /\ rr_given[1].dry_run /\ ~rr_given[2].dry_run /\ ~rr_given[3].dry_run
  /\ rr_sum.ab_c.error_messages = <<"m1", "m2", "m1", "m2">>
  /\ rr_sum.ab_c.successful_hits = 3 * MaxHits
  /\ rr_sum.ab.error_messages # rr_sum.ba.error_messages

(***************************************************************************)
(* Properties of a run and the retry ledger                                *)
(***************************************************************************)
\* the kinds the taxonomy marks retriable
Retriable(error_num) == error_num.name = "RETRIABLE_GA4_HOOK_ERROR_HTTP_ERROR"

RetriableRecorded ==
  \E k \in DOMAIN invalid_indices_and_errors : Retriable(invalid_indices_and_errors[k][2])

\* C11: a run that has classified an event's failure with a retriable kind
\* ends with a record in the retry ledger that has retry_num = 0 and
\* delete = FALSE; a run without a retriable failure leaves the ledger empty.
C11_RetriableFailureEnqueued ==
  pc = "returned" =>
    IF RetriableRecorded
      THEN \E r \in retries : r.retry_num = 0 /\ r.delete = FALSE
      ELSE retries = {}

\* C12: an undecodable body of a status-200 response records the same kind
\* value as a status of 500 or more does: the retriable HTTP error kind as the
\* taxonomy holds it.
C12_UndecodableBodySameKind ==
  ( /\ Requested
    /\ Answered(response)
    /\ \/ response.status >= 500
       \/ response.status = 200 /\ response.body.parse # "ok" )
    => /\ Completed
       /\ KindsAt(i - 1) = {RETRIABLE_GA4_HOOK_ERROR_HTTP_ERROR}

\* C13: every key of the map get_partial_failures returns is an index of the
\* submitted batch, 0..N-1.
C13_KeysWithinBatch ==
  pf_pc = "returned" => DOMAIN pf_result \subseteq 0..(pf_batch_size - 1)

\* C14: when the code is not 0 and some error has no location path, the call
\* ends in a fault and returns no map: neither one that places the error at
\* some index nor the part built from the errors before it.
C14_PathlessErrorIsFatal ==
  (pf_pc \in {"returned", "raised"} /\ ~ZeroCode /\ ~AllLocated) =>
    (pf_pc = "raised" /\ pf_result = EmptyMap)

C14_Witness ==
  /\ pf_pc = "raised"
  /\ ~ZeroCode
  /\ Len(ReportedErrors) = 2
  /\ ReportedErrors[1].has_field_path_elements
  /\ ~ReportedErrors[2].has_field_path_elements
  /\ pf_result = EmptyMap

====
